---------------------------- MODULE Spec2Model ----------------------------
(***************************************************************************)
(* A model of game_of_life.c: the start-up sequence of run (checkParams,    *)
(* checkConfigFile, fillBoard) and its endless loop (printBoard,            *)
(* updateBoard, step++).                                                    *)
(*                                                                          *)
(* Characters are the integer values a C char holds.  The build modelled is *)
(* the one the program works on: char is signed and 8 bits wide, int is 32  *)
(* bits, size_t is 64 bits (gcc on x86-64).  With an unsigned char the      *)
(* test current_char == EOF of checkConfigFile is never true and every file *)
(* is rejected.                                                             *)
(***************************************************************************)
EXTENDS Integers, Sequences, FiniteSets, TLC

(***************************************************************************)
(* Bounds of the model.                                                     *)
(***************************************************************************)
\* the longest configuration file drawn by Init
MaxFileLen == 6
\* the most rows, columns and cells (rows * columns) of a grid drawn by InitGrid
MaxRows == 3
MaxColumns == 3
MaxCells == 9
\* the loop of run is followed until step reaches MaxStep
MaxStep == 1
\* the most cells (rows * columns) of a board drawn by InitBytes
MaxByteCells == 4

(***************************************************************************)
(* Program constants.                                                       *)
(***************************************************************************)
OK == 0
ERROR == 1
ALIVE == 35
DEAD == 46
NEWLINE == 10
EOF == -1
DEFAULT_CONFIG_PATH == "default.txt"
NULL == "NULL"

\* the conversion of an int to (signed, 8 bit) char: char c = fgetc(f)
ToChar(i) == ((i + 128) % 256) - 128

\* the conversion of an int to uint8_t: *board_width = last_column_count - 1
ToUint8(i) == i % 256

VARIABLES
  pc,            \* the position of run
  argv,          \* the command line, argv[0] included (argc = Len(argv))
  disk_exists,   \* whether fopen(file_path, "rb") finds a file
  disk,          \* the bytes of that file
  file_path,     \* run's file_path
  config_file,   \* run's config_file: NULL, "open" or "closed"
  board_height,  \* run's board_height (uint8_t)
  board_width,   \* run's board_width (uint8_t)
  board_state,   \* run's board pointer: NULL, "partial" (a row is NULL), "allocated"
  board,         \* the cells: board[row][column], rows and columns from 0
  step,          \* run's step
  ret,           \* the value run returned, -1 while it runs
  out,           \* the last message of the start-up sequence on stdout
  screen,        \* the last frame printBoard drew, with its "Step:" label
  old_board,     \* the cells as they were when updateBoard was last entered
  ub             \* whether updateBoard has read outside the board

vars == <<pc, argv, disk_exists, disk, file_path, config_file, board_height,
          board_width, board_state, board, step, ret, out, screen, old_board, ub>>

NoMessage == [kind |-> "none", ch |-> 0]
NoScreen == [label |-> -1, rows |-> <<>>]
NoBoard == <<>>

(***************************************************************************)
(* The inputs.                                                              *)
(***************************************************************************)
\* the bytes a file is made of: the two markers, the line terminator, a
\* letter ('x') and the byte 0xFF
Alphabet == {ALIVE, DEAD, NEWLINE, 120, 255}

Files == UNION {[1..n -> Alphabet] : n \in 0..MaxFileLen}

GoodArgvs == {<<"./gol">>, <<"./gol", "-f", "board.txt">>}

BadArgvs == {<<"./gol", "-x", "board.txt">>, <<"./gol", "board.txt">>}

(***************************************************************************)
(* checkParams                                                              *)
(***************************************************************************)
\* calloc_ok: whether calloc returned memory
checkParams(av, calloc_ok) ==
  IF Len(av) = 1
  THEN IF ~calloc_ok
       THEN [ret |-> ERROR, file_path |-> NULL, out |-> [kind |-> "info_default", ch |-> 0]]
       ELSE [ret |-> OK, file_path |-> DEFAULT_CONFIG_PATH,
             out |-> [kind |-> "info_default", ch |-> 0]]
  ELSE IF Len(av) = 3
  THEN IF av[2] = "-f"
       THEN IF ~calloc_ok
            THEN [ret |-> ERROR, file_path |-> NULL, out |-> [kind |-> "using", ch |-> 0]]
            ELSE [ret |-> OK, file_path |-> av[3], out |-> [kind |-> "using", ch |-> 0]]
       ELSE [ret |-> ERROR, file_path |-> NULL, out |-> [kind |-> "usage", ch |-> 0]]
  ELSE [ret |-> ERROR, file_path |-> NULL, out |-> [kind |-> "usage", ch |-> 0]]

(***************************************************************************)
(* checkConfigFile                                                          *)
(***************************************************************************)
\* fgetc on a stream at offset pos of a file holding content: the byte as an
\* int in 0..255, or EOF at the end of the file
fgetc(content, pos) == IF pos < Len(content) THEN content[pos + 1] ELSE EOF

\* a variant of TerminatorMismatch: a completed line is never checked
TerminatorMismatch_Never(last_column_count, current_column_count) == FALSE

\* the test of line 133, at a line terminator
TerminatorMismatch(last_column_count, current_column_count) ==
  last_column_count # current_column_count

\* a variant of EofMismatch: the final line is never checked
EofMismatch_Never(last_column_count, current_column_count) == FALSE

\* the test of line 144, at the end of the input
EofMismatch(last_column_count, current_column_count) ==
  last_column_count # current_column_count

\* the test of line 152
InvalidChar(current_char) == current_char # DEAD /\ current_char # ALIVE

\* One pass through the body of the while loop, lines 128-158.  s holds the
\* stream offset, the three counters and, once the loop is left (by a return
\* or by the break of line 150), what it was left with.
ScanChar(content, s) ==
  LET current_char == ToChar(fgetc(content, s.pos))
      ccc == s.current_column_count + 1
  IN  IF current_char = NEWLINE
      THEN LET lcc == IF s.last_column_count = 0 THEN ccc ELSE s.last_column_count
           IN  IF TerminatorMismatch(lcc, ccc)
               THEN [s EXCEPT !.left = TRUE, !.ret = ERROR,
                              !.out = [kind |-> "inconsistent", ch |-> 0],
                              !.last_column_count = lcc]
               ELSE [s EXCEPT !.pos = s.pos + 1, !.last_column_count = lcc,
                              !.current_column_count = 0,
                              !.row_count = s.row_count + 1]
      ELSE IF current_char = EOF
      THEN IF EofMismatch(s.last_column_count, ccc)
           THEN [s EXCEPT !.left = TRUE, !.ret = ERROR,
                          !.out = [kind |-> "inconsistent", ch |-> 0]]
           ELSE [s EXCEPT !.left = TRUE, !.ret = OK]
      ELSE IF InvalidChar(current_char)
      THEN [s EXCEPT !.left = TRUE, !.ret = ERROR,
                     !.out = [kind |-> "invalid_char", ch |-> current_char]]
      ELSE [s EXCEPT !.pos = s.pos + 1, !.current_column_count = ccc]

\* n passes through the body of the while loop from the state s, or as many
\* as are made before the loop is left.  feof is false whenever the loop
\* condition is evaluated: the indicator is set only by an fgetc that
\* returns EOF, the char made of that is -1 = EOF, and that branch leaves
\* the loop.  (The passes are taken in two halves, one after the other.)
RECURSIVE ScanPasses(_, _, _)
ScanPasses(content, s, n) ==
  IF n = 0 \/ s.left
  THEN s
  ELSE IF n = 1
  THEN ScanChar(content, s)
  ELSE CHOOSE result \in
         {ScanPasses(content, half, n - (n \div 2)) :
            half \in {ScanPasses(content, s, n \div 2)}} : TRUE

\* The while loop of checkConfigFile, lines 123-159: every pass but the
\* last reads one byte of the file, so there are at most Len(content) + 1
ScanConfig(content) ==
  ScanPasses(content,
             [pos |-> 0, last_column_count |-> 0, current_column_count |-> 0,
              row_count |-> 0, left |-> FALSE, ret |-> OK, out |-> NoMessage],
             Len(content) + 1)

\* a variant of BoardWidthOf: the int value is kept as it is
BoardWidthOf_NoWrap(last_column_count) == last_column_count - 1

\* line 161
BoardWidthOf(last_column_count) == ToUint8(last_column_count - 1)

\* a variant of BoardHeightOf: the number of terminators
BoardHeightOf_NoPlusOne(row_count) == ToUint8(row_count)

\* line 162
BoardHeightOf(row_count) == ToUint8(row_count + 1)

\* exists: whether fopen succeeds; h, w: *board_height and *board_width
\* before the call
checkConfigFile(exists, content, h, w) ==
  IF ~exists
  THEN [ret |-> ERROR, config_file |-> NULL, board_height |-> h, board_width |-> w,
        out |-> [kind |-> "no_file", ch |-> 0]]
  ELSE LET s == ScanConfig(content)
       IN  IF s.ret = ERROR
           THEN [ret |-> ERROR, config_file |-> "closed", board_height |-> h,
                 board_width |-> w, out |-> s.out]
           ELSE [ret |-> OK, config_file |-> "open",
                 board_height |-> BoardHeightOf(s.row_count),
                 board_width |-> BoardWidthOf(s.last_column_count),
                 out |-> [kind |-> "info_rows", ch |-> 0]]

(***************************************************************************)
(* fillBoard                                                                *)
(***************************************************************************)
\* a Cell as calloc leaves it
ZeroCell == [current_value |-> 0, new_value |-> 0]

ZeroBoard(h, w) == [row \in 0..(h - 1) |-> [column \in 0..(w - 1) |-> ZeroCell]]

\* One fgetc of the two loops of lines 196-206.  s holds the board, the two
\* loop counters and the stream offset; with column = w the byte read is the
\* one line 205 reads at the end of a row, which is stored nowhere.
FillChar(content, s, w) ==
  IF s.column >= w
  THEN [s EXCEPT !.row = s.row + 1, !.column = 0, !.pos = s.pos + 1]
  ELSE LET current_char == ToChar(fgetc(content, s.pos))
       IN  [s EXCEPT !.b[s.row][s.column] =
                       [current_value |-> current_char, new_value |-> current_char],
                     !.column = s.column + 1, !.pos = s.pos + 1]

\* n fgetc of the loops from the state s on (taken in two halves, one after
\* the other)
RECURSIVE FillFrom(_, _, _, _)
FillFrom(content, s, w, n) ==
  IF n = 0
  THEN s
  ELSE IF n = 1
  THEN FillChar(content, s, w)
  ELSE CHOOSE result \in
         {FillFrom(content, half, w, n - (n \div 2)) :
            half \in {FillFrom(content, s, w, n \div 2)}} : TRUE

\* board_ok: whether the calloc of line 182 returned memory; rows_ok: the
\* number of rows the calloc of line 189 returned memory for before it
\* returned NULL (h: for every row).  calloc may return NULL for a size of 0
\* as for any other.
fillBoard(content, h, w, board_ok, rows_ok) ==
  IF ~board_ok
  THEN [ret |-> ERROR, board_state |-> NULL, board |-> NoBoard]
  ELSE IF rows_ok < h
  THEN [ret |-> ERROR, board_state |-> "partial", board |-> NoBoard]
  ELSE [ret |-> OK, board_state |-> "allocated",
        board |-> FillFrom(content,
                           [b |-> ZeroBoard(h, w), row |-> 0, column |-> 0, pos |-> 0],
                           w, h * (w + 1)).b]

(***************************************************************************)
(* size_t arithmetic.  A size_t (64 bits) is four 16 bit limbs, the least   *)
(* significant first (a[1]), so that no intermediate value leaves the range of the *)
(* integers TLC computes with.                                              *)
(***************************************************************************)
Limb == 256 * 256

\* the conversion of an int (32 bits, two's complement) to size_t
SizeT(i) ==
  <<i % Limb, (i \div Limb) % Limb,
    IF i < 0 THEN Limb - 1 ELSE 0, IF i < 0 THEN Limb - 1 ELSE 0>>

\* a + b in size_t: modulo 2^64
SizeAdd(a, b) ==
  LET s1 == a[1] + b[1]
      s2 == a[2] + b[2] + (s1 \div Limb)
      s3 == a[3] + b[3] + (s2 \div Limb)
      s4 == a[4] + b[4] + (s3 \div Limb)
  IN  <<s1 % Limb, s2 % Limb, s3 % Limb, s4 % Limb>>

\* a >= b in size_t
SizeGE(a, b) ==
  IF a[4] # b[4] THEN a[4] > b[4]
  ELSE IF a[3] # b[3] THEN a[3] > b[3]
  ELSE IF a[2] # b[2] THEN a[2] > b[2]
  ELSE a[1] >= b[1]

\* index + offset as lines 232 and 236 compute it: the int offset is
\* converted to size_t and the sum is taken in size_t
SizeSum(index, offset) ==
  CHOOSE sum \in {SizeAdd(a, b) : a \in {SizeT(index)}, b \in {SizeT(offset)}} : TRUE

(***************************************************************************)
(* updateBoard                                                              *)
(***************************************************************************)
\* line 221
neighbour ==
  <<[offset_y |-> -1, offset_x |-> -1], [offset_y |-> -1, offset_x |-> 0],
    [offset_y |-> -1, offset_x |-> 1],  [offset_y |-> 0, offset_x |-> -1],
    [offset_y |-> 0, offset_x |-> 1],   [offset_y |-> 1, offset_x |-> -1],
    [offset_y |-> 1, offset_x |-> 0],   [offset_y |-> 1, offset_x |-> 1]>>

\* a variant of OutOfRange: the comparison made in int
OutOfRange_Signed(index, offset, bound) == index + offset >= bound

\* the test of line 232 for one index: index + offset >= bound, the int
\* offset and the int bound converted to size_t
OutOfRange(index, offset, bound) ==
  \E sum \in {SizeSum(index, offset)}, limit \in {SizeT(bound)} : SizeGE(sum, limit)

\* line 232: the neighbour is skipped
Skipped(row, column, count, board_height_, board_width_) ==
  \/ OutOfRange(row, neighbour[count].offset_y, board_height_)
  \/ OutOfRange(column, neighbour[count].offset_x, board_width_)

\* the cell that line 236 reads for a neighbour that is not skipped: the
\* indexes are row + offset_y and column + offset_x, in size_t
ReadAt(row, column, count) ==
  [y |-> SizeSum(row, neighbour[count].offset_y),
   x |-> SizeSum(column, neighbour[count].offset_x)]

\* a size_t below 2^16
Small(a) == a[2] = 0 /\ a[3] = 0 /\ a[4] = 0

\* the read is of a cell of the board
InBoard(b, at) ==
  /\ Small(at.y) /\ at.y[1] \in DOMAIN b
  /\ Small(at.x) /\ at.x[1] \in DOMAIN b[at.y[1]]

\* the reads of line 236 for the cell (row, column)
Reads(row, column, board_height_, board_width_) ==
  {ReadAt(row, column, count) : count \in
     {c \in 1..8 : ~Skipped(row, column, c, board_height_, board_width_)}}

\* whether a scan of the board reads outside it (undefined behaviour)
ReadsOutside(b, board_height_, board_width_) ==
  \E row \in 0..(board_height_ - 1), column \in 0..(board_width_ - 1) :
    \E at \in Reads(row, column, board_height_, board_width_) : ~InBoard(b, at)

\* a variant of NeighbourCount: every cell that is not '.' counts
NeighbourCount_NotDead(b, row, column, board_height_, board_width_) ==
  Cardinality({count \in 1..8 :
    /\ ~Skipped(row, column, count, board_height_, board_width_)
    /\ \E at \in {ReadAt(row, column, count)} :
         InBoard(b, at) /\ b[at.y[1]][at.x[1]].current_value # DEAD})

\* lines 227-240
NeighbourCount(b, row, column, board_height_, board_width_) ==
  Cardinality({count \in 1..8 :
    /\ ~Skipped(row, column, count, board_height_, board_width_)
    /\ \E at \in {ReadAt(row, column, count)} :
         InBoard(b, at) /\ b[at.y[1]][at.x[1]].current_value = ALIVE})

\* a variant of NewValue: a live cell survives with 2 neighbours only
NewValue_SurviveOnTwo(current_value, neighbour_count) ==
  IF current_value = ALIVE /\ neighbour_count = 2
  THEN ALIVE
  ELSE IF current_value = DEAD /\ neighbour_count = 3
  THEN ALIVE
  ELSE DEAD

\* a variant of NewValue: a live cell survives with 3 neighbours only
NewValue_SurviveOnThree(current_value, neighbour_count) ==
  IF neighbour_count = 3 /\ current_value \in {ALIVE, DEAD} THEN ALIVE ELSE DEAD

\* lines 242-255: the value stored in new_value
NewValue(current_value, neighbour_count) ==
  IF current_value = ALIVE /\ (neighbour_count = 2 \/ neighbour_count = 3)
  THEN ALIVE
  ELSE IF current_value = DEAD /\ neighbour_count = 3
  THEN ALIVE
  ELSE DEAD

\* a variant of ScanCell: the new value is stored in current_value as well
ScanCell_InPlace(b, row, column, board_height_, board_width_) ==
  [b EXCEPT ![row][column] =
     [current_value |-> NewValue(b[row][column].current_value,
                                 NeighbourCount(b, row, column, board_height_, board_width_)),
      new_value |-> NewValue(b[row][column].current_value,
                             NeighbourCount(b, row, column, board_height_, board_width_))]]

\* lines 227-255 for one cell: the board with the cell's new_value stored
ScanCell(b, row, column, board_height_, board_width_) ==
  [b EXCEPT ![row][column].new_value =
     CHOOSE new_value \in
       {NewValue(b[row][column].current_value, neighbour_count) :
          neighbour_count \in
            {NeighbourCount(b, row, column, board_height_, board_width_)}} : TRUE]

\* the loops of lines 223-257 for the cells numbered first..(last - 1), the
\* cells counted row by row as the loops visit them: the first half is
\* scanned, then the second with the board the first left
RECURSIVE ScanFrom(_, _, _, _, _)
ScanFrom(b, first, last, board_height_, board_width_) ==
  IF first >= last
  THEN b
  ELSE IF last = first + 1
  THEN ScanCell(b, first \div board_width_, first % board_width_,
                board_height_, board_width_)
  ELSE CHOOSE result \in
         {ScanFrom(half, first + ((last - first) \div 2), last,
                   board_height_, board_width_) :
            half \in {ScanFrom(b, first, first + ((last - first) \div 2),
                               board_height_, board_width_)}} : TRUE

\* lines 260-266
Persist(b) ==
  [row \in DOMAIN b |-> [column \in DOMAIN b[row] |->
     [b[row][column] EXCEPT !.current_value = b[row][column].new_value]]]

\* what the scan may leave after a read outside the board: any new_values
Havoc(b) ==
  {[row \in DOMAIN b |-> [column \in DOMAIN b[row] |->
      [b[row][column] EXCEPT !.new_value = nv[row][column]]]] :
    nv \in [DOMAIN b -> [UNION {DOMAIN b[row] : row \in DOMAIN b} -> {ALIVE, DEAD}]]}

(***************************************************************************)
(* printBoard                                                               *)
(***************************************************************************)
\* lines 289-296: what is printed for one cell
Glyph(current_value) ==
  IF current_value = ALIVE THEN <<"alive">>
  ELSE IF current_value = DEAD THEN <<"dead">>
  ELSE <<>>

\* lines 287-297 for the columns first..(last - 1) of a row
RECURSIVE PrintRow(_, _, _, _)
PrintRow(b, row, first, last) ==
  IF first >= last
  THEN <<>>
  ELSE IF last = first + 1
  THEN Glyph(b[row][first].current_value)
  ELSE PrintRow(b, row, first, first + ((last - first) \div 2))
       \o PrintRow(b, row, first + ((last - first) \div 2), last)

\* lines 284-299: the interior rows of the frame
printBoard(b, board_height_, board_width_) ==
  [row \in 0..(board_height_ - 1) |-> PrintRow(b, row, 0, board_width_)]

(***************************************************************************)
(* run                                                                      *)
(***************************************************************************)
\* a variant of AfterCall: the value the function returned is ignored
AfterCall_Ignore(rc, next) == next

\* lines 326-337: run returns ERROR when a start-up function does not
\* return 0, and goes on to the next one otherwise
AfterCall(rc, next) == IF rc # OK THEN "returned" ELSE next

ReturnOf(rc) == IF rc # OK THEN ERROR ELSE -1

\* line 326
CheckParams ==
  /\ pc = "checkParams"
  /\ \E calloc_ok \in BOOLEAN :
       LET r == checkParams(argv, calloc_ok)
       IN  /\ file_path' = r.file_path
           /\ out' = r.out
           /\ pc' = AfterCall(r.ret, "checkConfigFile")
           /\ ret' = ReturnOf(r.ret)
  /\ UNCHANGED <<argv, disk_exists, disk, config_file, board_height, board_width,
                 board_state, board, step, screen, old_board, ub>>

\* line 330
CheckConfigFile ==
  /\ pc = "checkConfigFile"
  /\ LET r == checkConfigFile(disk_exists, disk, board_height, board_width)
     IN  /\ config_file' = r.config_file
         /\ board_height' = r.board_height
         /\ board_width' = r.board_width
         /\ out' = r.out
         /\ pc' = AfterCall(r.ret, "fillBoard")
         /\ ret' = ReturnOf(r.ret)
  /\ UNCHANGED <<argv, disk_exists, disk, file_path, board_state, board, step,
                 screen, old_board, ub>>

\* line 334, and the sleep and the banner of lines 339-340
FillBoard ==
  /\ pc = "fillBoard"
  /\ \E board_ok \in BOOLEAN, rows_ok \in 0..board_height :
       LET r == fillBoard(disk, board_height, board_width, board_ok, rows_ok)
       IN  /\ board_state' = r.board_state
           /\ board' = r.board
           /\ pc' = AfterCall(r.ret, "printBoard")
           /\ ret' = ReturnOf(r.ret)
  /\ UNCHANGED <<argv, disk_exists, disk, file_path, config_file, board_height,
                 board_width, step, out, screen, old_board, ub>>

\* lines 343-344
PrintBoard ==
  /\ pc = "printBoard"
  /\ screen' = [label |-> step, rows |-> printBoard(board, board_height, board_width)]
  /\ pc' = "updateBoard"
  /\ UNCHANGED <<argv, disk_exists, disk, file_path, config_file, board_height,
                 board_width, board_state, board, step, ret, out, old_board, ub>>

\* line 345, the scan of lines 223-257
UpdateScan ==
  /\ pc = "updateBoard"
  /\ old_board' = board
  /\ \E outside \in {ReadsOutside(board, board_height, board_width)} :
       /\ ub' = (ub \/ outside)
       /\ board' \in IF outside
                     THEN Havoc(board)
                     ELSE {ScanFrom(board, 0, board_height * board_width,
                                    board_height, board_width)}
  /\ pc' = "persist"
  /\ UNCHANGED <<argv, disk_exists, disk, file_path, config_file, board_height,
                 board_width, board_state, step, ret, out, screen>>

\* line 345, the copy of lines 260-266
UpdatePersist ==
  /\ pc = "persist"
  /\ board' = Persist(board)
  /\ pc' = "wait"
  /\ UNCHANGED <<argv, disk_exists, disk, file_path, config_file, board_height,
                 board_width, board_state, step, ret, out, screen, old_board, ub>>

\* a variant of Wait: step is not counted
Wait_NoCount ==
  /\ pc = "wait"
  /\ pc' = "printBoard"
  /\ UNCHANGED <<argv, disk_exists, disk, file_path, config_file, board_height,
                 board_width, board_state, board, step, ret, out, screen, old_board, ub>>

\* lines 346-347; the model follows the loop until step is MaxStep
Wait ==
  /\ pc = "wait"
  /\ step < MaxStep
  /\ step' = step + 1
  /\ pc' = "printBoard"
  /\ UNCHANGED <<argv, disk_exists, disk, file_path, config_file, board_height,
                 board_width, board_state, board, ret, out, screen, old_board, ub>>

Next ==
  \/ CheckParams
  \/ CheckConfigFile
  \/ FillBoard
  \/ PrintBoard
  \/ UpdateScan
  \/ UpdatePersist
  \/ Wait

\* lines 319-324
InitRun ==
  /\ pc = "checkParams"
  /\ file_path = NULL
  /\ config_file = NULL
  /\ board_height = 0
  /\ board_width = 0
  /\ board_state = NULL
  /\ board = NoBoard
  /\ step = 0
  /\ ret = -1
  /\ out = NoMessage
  /\ screen = NoScreen
  /\ old_board = NoBoard
  /\ ub = FALSE

\* any command line, and any file of at most MaxFileLen bytes or none
Init ==
  /\ InitRun
  /\ \/ argv \in GoodArgvs /\ disk_exists = TRUE /\ disk \in Files
     \/ argv \in GoodArgvs /\ disk_exists = FALSE /\ disk = <<>>
     \/ argv \in BadArgvs /\ disk_exists = TRUE /\ disk = <<>>

Spec == Init /\ [][Next]_vars

\* the text of a grid: its rows, a line terminator between one and the next
RECURSIVE Serialise(_, _, _, _)
Serialise(grid, h, w, row) ==
  IF row >= h
  THEN <<>>
  ELSE [column \in 1..w |-> grid[row][column - 1]]
       \o (IF row + 1 < h THEN <<NEWLINE>> ELSE <<>>)
       \o Serialise(grid, h, w, row + 1)

\* the grids of h rows and w columns of the two markers
Grids(h, w) == [0..(h - 1) -> [0..(w - 1) -> {ALIVE, DEAD}]]

\* the file is the text of a grid of at most MaxRows rows, MaxColumns columns
\* and MaxCells cells
InitGrid ==
  /\ InitRun
  /\ argv = <<"./gol">>
  /\ disk_exists = TRUE
  /\ \E h \in 1..MaxRows, w \in 1..MaxColumns :
       /\ h * w <= MaxCells
       /\ \E grid \in Grids(h, w) : disk = Serialise(grid, h, w, 0)

SpecGrid == InitGrid /\ [][Next]_vars

\* run is a sequential program: while a statement can be executed, one is
SpecGridFair == InitGrid /\ [][Next]_vars /\ WF_vars(Next)

\* the shapes (rows, columns) of the long files: a row has 255 columns or
\* more, or there are 255 rows or more
LongShapes ==
  {<<2, 255>>, <<2, 256>>, <<2, 257>>, <<3, 384>>, <<255, 1>>, <<256, 1>>, <<257, 1>>}

\* the text of rows lines of columns times the marker, a line terminator
\* between one line and the next
LongFile(rows, columns, marker) ==
  [i \in 1..(rows * (columns + 1) - 1) |->
     IF i % (columns + 1) = 0 THEN NEWLINE ELSE marker]

\* the file is a long one, all alive or all dead
InitLong ==
  /\ InitRun
  /\ argv = <<"./gol">>
  /\ disk_exists = TRUE
  /\ \E shape \in LongShapes, marker \in {ALIVE, DEAD} :
       disk = LongFile(shape[1], shape[2], marker)

SpecLong == InitLong /\ [][Next]_vars

\* the loop of run, lines 341-348
NextLoop ==
  \/ PrintBoard
  \/ UpdateScan
  \/ UpdatePersist
  \/ Wait

\* values a cell may hold: the two markers, a line terminator, the 0 of
\* calloc and the char -1
Bytes == {ALIVE, DEAD, NEWLINE, 0, -1}

\* run is at the start of its loop with a board of at most MaxByteCells
\* cells, each holding any of the Bytes
InitBytes ==
  /\ pc = "printBoard"
  /\ argv = <<"./gol">>
  /\ disk_exists = TRUE
  /\ disk = <<>>
  /\ file_path = DEFAULT_CONFIG_PATH
  /\ config_file = "open"
  /\ board_state = "allocated"
  /\ \E h \in 1..MaxByteCells, w \in 1..MaxByteCells :
       /\ h * w <= MaxByteCells
       /\ board_height = h
       /\ board_width = w
       /\ \E values \in [0..(h - 1) -> [0..(w - 1) -> Bytes]] :
            board = [row \in 0..(h - 1) |-> [column \in 0..(w - 1) |->
                       [current_value |-> values[row][column],
                        new_value |-> values[row][column]]]]
  /\ step = 0
  /\ ret = -1
  /\ out = [kind |-> "info_rows", ch |-> 0]
  /\ screen = NoScreen
  /\ old_board = NoBoard
  /\ ub = FALSE

SpecBytes == InitBytes /\ [][NextLoop]_vars

(***************************************************************************)
(* Reference definitions the claims are stated with.                        *)
(***************************************************************************)
\* the current values of a board
Cur(b) == [row \in DOMAIN b |-> [column \in DOMAIN b[row] |-> b[row][column].current_value]]

TwoValued(b) ==
  \A row \in DOMAIN b : \A column \in DOMAIN b[row] :
    b[row][column].current_value \in {ALIVE, DEAD}

Offsets == ({-1, 0, 1} \X {-1, 0, 1}) \ {<<0, 0>>}

\* the in-grid neighbours of (r, c) on a board with hard edges
GridNeighbours(b, r, c) ==
  {<<r + d[1], c + d[2]>> : d \in
     {e \in Offsets : r + e[1] \in DOMAIN b /\ c + e[2] \in DOMAIN b[r]}}

LiveNeighbours(b, r, c) ==
  Cardinality({n \in GridNeighbours(b, r, c) : b[n[1]][n[2]].current_value = ALIVE})

\* the Game of Life rule for the cell (r, c) of b
RefCell(b, r, c) ==
  IF \/ b[r][c].current_value = ALIVE /\ LiveNeighbours(b, r, c) \in {2, 3}
     \/ b[r][c].current_value = DEAD /\ LiveNeighbours(b, r, c) = 3
  THEN ALIVE
  ELSE DEAD

\* one step of the Game of Life with hard edges
RefStep(b) == [row \in DOMAIN b |-> [column \in DOMAIN b[row] |-> RefCell(b, row, column)]]

\* the board of h rows and w columns whose live cells are those of live
BoardOf(h, w, live) ==
  [row \in 0..(h - 1) |-> [column \in 0..(w - 1) |->
     IF <<row, column>> \in live THEN ALIVE ELSE DEAD]]

VerticalBlinker == BoardOf(3, 3, {<<0, 1>>, <<1, 1>>, <<2, 1>>})
HorizontalBlinker == BoardOf(3, 3, {<<1, 0>>, <<1, 1>>, <<1, 2>>})

\* the lines of a text: what stands between its line terminators
RECURSIVE SplitLines(_)
SplitLines(text) ==
  IF \A i \in 1..Len(text) : text[i] # NEWLINE
  THEN <<text>>
  ELSE LET i == CHOOSE j \in 1..Len(text) :
                  text[j] = NEWLINE /\ \A k \in 1..(j - 1) : text[k] # NEWLINE
       IN  <<SubSeq(text, 1, i - 1)>> \o SplitLines(SubSeq(text, i + 1, Len(text)))

Range(seq) == {seq[i] : i \in 1..Len(seq)}

CountNL(text) == Cardinality({i \in 1..Len(text) : text[i] = NEWLINE})

\* a text of the two markers and line terminators only
OnlyPermitted(text) == Range(text) \subseteq {ALIVE, DEAD, NEWLINE}

\* a grid of N >= 1 rows of M >= 1 markers, a terminator between the rows
WellFormedGrid(text) ==
  /\ OnlyPermitted(text)
  /\ \A i \in 1..Len(SplitLines(text)) :
       Len(SplitLines(text)[i]) = Len(SplitLines(text)[1]) /\ Len(SplitLines(text)[i]) >= 1

\* checkParams has succeeded and checkConfigFile has returned
Parsed == pc \notin {"checkParams", "checkConfigFile"} /\ file_path # NULL

\* checkConfigFile has returned OK
Accepted == Parsed /\ out.kind = "info_rows"

(***************************************************************************)
(* C1: after one call of updateBoard on a board of '#' and '.', every cell  *)
(* is alive exactly when the Game of Life rule with hard edges says so of   *)
(* the board as it was before the call: the result is RefStep of it.        *)
(***************************************************************************)
C1_RuleCorrectness ==
  (pc = "wait" /\ TwoValued(old_board)) => Cur(board) = RefStep(old_board)

\* a 3x3 board has been stepped on which a cell was born, one survived, one
\* died of over-population (the centre, with 4 or more neighbours)
C1_Witness ==
  /\ pc = "wait" /\ board_height = 3 /\ board_width = 3
  /\ old_board[1][1].current_value = ALIVE /\ LiveNeighbours(old_board, 1, 1) >= 4
  /\ board[1][1].current_value = DEAD
  /\ \E r \in 0..2, c \in 0..2 :
       old_board[r][c].current_value = DEAD /\ board[r][c].current_value = ALIVE
  /\ \E r \in 0..2, c \in 0..2 :
       old_board[r][c].current_value = ALIVE /\ board[r][c].current_value = ALIVE

(***************************************************************************)
(* C2: updateBoard is synchronous.  When the scan is over and before the    *)
(* copy, every current_value is what it was at the call and every new_value *)
(* is the rule applied to the board as it was at the call; so a vertical    *)
(* blinker becomes the horizontal one and the horizontal the vertical.      *)
(***************************************************************************)
C2_Synchronous ==
  /\ (pc = "persist" /\ TwoValued(old_board)) =>
       /\ Cur(board) = Cur(old_board)
       /\ \A row \in DOMAIN board : \A column \in DOMAIN board[row] :
            board[row][column].new_value = RefCell(old_board, row, column)
  /\ (pc = "wait" /\ Cur(old_board) = VerticalBlinker) => Cur(board) = HorizontalBlinker
  /\ (pc = "wait" /\ Cur(old_board) = HorizontalBlinker) => Cur(board) = VerticalBlinker

\* the blinker has been stepped twice: vertical, horizontal, vertical
C2_Witness ==
  /\ pc = "wait" /\ step = 1
  /\ disk = Serialise(VerticalBlinker, 3, 3, 0)
  /\ Cur(old_board) = HorizontalBlinker
  /\ Cur(board) = VerticalBlinker

(***************************************************************************)
(* C3: the board has hard edges.  No scan reads outside the board; in a     *)
(* scan the neighbours read for a cell are exactly its in-grid neighbours,  *)
(* none wrapped to the opposite side, and the count is that of the live     *)
(* ones among them; a corner cell has at most 3 of them, and a board whose  *)
(* only live cell is at a corner is all dead after one step.                *)
(***************************************************************************)
Corners(b) == {0, board_height - 1} \X {0, board_width - 1}

C3_HardEdges ==
  /\ ~ub
  /\ pc = "persist" =>
       /\ \A row \in DOMAIN old_board : \A column \in DOMAIN old_board[row] :
            /\ {<<at.y, at.x>> : at \in Reads(row, column, board_height, board_width)}
                 = {<<SizeT(n[1]), SizeT(n[2])>> : n \in GridNeighbours(old_board, row, column)}
            /\ NeighbourCount(old_board, row, column, board_height, board_width)
                 = LiveNeighbours(old_board, row, column)
       /\ \A corner \in Corners(board) :
            Cardinality(Reads(corner[1], corner[2], board_height, board_width)) <= 3
  /\ \A corner \in Corners(board) :
       (pc = "wait" /\ Cur(old_board) = BoardOf(board_height, board_width, {corner}))
         => Cur(board) = BoardOf(board_height, board_width, {})

\* a 3x3 board with one live cell, in the corner (2, 2), has been stepped
C3_Witness ==
  /\ pc = "wait" /\ board_height = 3 /\ board_width = 3
  /\ Cur(old_board) = BoardOf(3, 3, {<<2, 2>>})
  /\ Cur(board) = BoardOf(3, 3, {})

(***************************************************************************)
(* C4: parser round trip.  For the text of a grid of N rows of M markers,   *)
(* checkConfigFile returns OK with board_height = N and board_width = M,    *)
(* fillBoard fails only when calloc returns NULL, and the board it builds   *)
(* has the cell (r, c) alive exactly when the marker at row r, column c of  *)
(* the text is the alive marker.                                            *)
(***************************************************************************)
C4_RoundTrip ==
  (WellFormedGrid(disk) /\ disk_exists /\ Parsed) =>
    LET lines == SplitLines(disk)
    IN  /\ Accepted
        /\ board_height = Len(lines)
        /\ board_width = Len(lines[1])
        /\ pc = "returned" => board_state # "allocated"
        /\ pc # "returned" /\ pc # "fillBoard" => board_state = "allocated"
        /\ (pc = "printBoard" /\ step = 0) =>
             /\ DOMAIN board = 0..(Len(lines) - 1)
             /\ \A r \in DOMAIN board :
                  /\ DOMAIN board[r] = 0..(Len(lines[1]) - 1)
                  /\ \A c \in DOMAIN board[r] :
                       /\ board[r][c].current_value = ALIVE <=> lines[r + 1][c + 1] = ALIVE
                       /\ board[r][c].current_value = DEAD <=> lines[r + 1][c + 1] = DEAD

\* a 3x3 grid with live and dead cells has been parsed and built
C4_Witness ==
  /\ pc = "printBoard" /\ step = 0
  /\ board_height = 3 /\ board_width = 3
  /\ disk = Serialise(BoardOf(3, 3, {<<0, 0>>, <<1, 2>>, <<2, 1>>}), 3, 3, 0)
  /\ Cur(board) = BoardOf(3, 3, {<<0, 0>>, <<1, 2>>, <<2, 1>>})

(***************************************************************************)
(* C5: on a successful parse the height is the number of line terminators,  *)
(* plus one if content follows the last terminator; and an input whose      *)
(* every line, the last included, is followed by a terminator is accepted   *)
(* with height equal to its number of lines.  (Stated for inputs of the two *)
(* markers and terminators only whose first line is not empty.)             *)
(***************************************************************************)
EndsWithTerminator(text) == Len(text) > 0 /\ text[Len(text)] = NEWLINE

LineDiffers(text, final_empty_counts) ==
  LET lines == SplitLines(text)
  IN  /\ Len(lines) >= 2
      /\ \E i \in 2..Len(lines) :
           /\ Len(lines[i]) # Len(lines[1])
           /\ final_empty_counts \/ i < Len(lines) \/ Len(lines[i]) > 0

C7_InvalidCharNeverAccepted ==
  (~OnlyPermitted(disk) /\ disk_exists /\ Parsed) =>
    ~Accepted /\ pc = "returned" /\ ret = ERROR /\ board_state = NULL

\* the offset (from 1) of the first character that is not permitted
FirstInvalid(text) ==
  CHOOSE i \in 1..Len(text) :
    /\ text[i] \notin {ALIVE, DEAD, NEWLINE}
    /\ \A k \in 1..(i - 1) : text[k] \in {ALIVE, DEAD, NEWLINE}

\* no completed line of the text differs in length from the first
NoMismatchIn(text) ==
  LET lines == SplitLines(text)
  IN  \A i \in 1..(Len(lines) - 1) : Len(lines[i]) = Len(lines[1])

(***************************************************************************)
(* C7, the rest of it, which holds of every character but the byte 0xFF:    *)
(* when the first character that is not permitted is reached before a       *)
(* column count mismatch is detected, checkConfigFile fails with the        *)
(* invalid character error carrying that character.                         *)
(***************************************************************************)
C7_OffendingCharReported ==
  (~OnlyPermitted(disk) /\ disk_exists /\ Parsed
     /\ disk[FirstInvalid(disk)] # 255
     /\ NoMismatchIn(SubSeq(disk, 1, FirstInvalid(disk) - 1))) =>
    /\ pc = "returned" /\ ret = ERROR /\ board_state = NULL
    /\ out = [kind |-> "invalid_char", ch |-> disk[FirstInvalid(disk)]]

(***************************************************************************)
(* C8: every board the parser accepts and builds has positive dimensions,   *)
(* 1 <= height <= 255 and 1 <= width <= 255.                                *)
(***************************************************************************)
C8_PositiveDimensions ==
  board_state = "allocated" => board_height \in 1..255 /\ board_width \in 1..255

(***************************************************************************)
(* C9: every start-up error ends the start-up sequence at once: run has     *)
(* returned a nonzero status, and nothing was rendered or stepped, then or  *)
(* later.                                                                   *)
(***************************************************************************)
\* a start-up function has failed: bad arguments or no memory for the path,
\* no file, inconsistent columns, an invalid character, no memory for the
\* board
StartupError ==
  \/ pc # "checkParams" /\ file_path = NULL
  \/ out.kind \in {"usage", "no_file", "inconsistent", "invalid_char"}
  \/ pc \notin {"checkParams", "checkConfigFile", "fillBoard"} /\ board_state # "allocated"

C9_StartupErrorsEndRun ==
  /\ StartupError =>
       /\ pc = "returned" /\ ret # 0 /\ ret # -1
       /\ screen = NoScreen /\ step = 0 /\ old_board = NoBoard
  /\ pc = "returned" => StartupError

\* run has returned after fillBoard could not allocate a row
C9_Witness ==
  /\ pc = "returned" /\ ret = ERROR
  /\ out.kind = "info_rows" /\ board_state = "partial"
  /\ screen = NoScreen /\ step = 0

(***************************************************************************)
(* C10: parsing a source of zero characters fails with the EmptyInput       *)
(* error, which is not the inconsistent column count error nor the invalid  *)
(* character error, and no board is built.                                  *)
(***************************************************************************)
C10_EmptyInputError ==
  (disk = <<>> /\ disk_exists /\ Parsed) =>
    /\ pc = "returned" /\ ret = ERROR /\ board_state = NULL
    /\ out.kind \notin {"inconsistent", "invalid_char"}

(***************************************************************************)
(* C10, amended: parsing a source of zero characters fails with the         *)
(* inconsistent column count error (there is no error of its own for it),   *)
(* and no board is built.                                                   *)
(***************************************************************************)
C10_EmptyInputRejected ==
  (disk = <<>> /\ disk_exists /\ Parsed) =>
    /\ pc = "returned" /\ ret = ERROR /\ board_state = NULL
    /\ out.kind = "inconsistent"

\* the empty file has been rejected
C10_Witness ==
  /\ disk = <<>> /\ disk_exists /\ Parsed
  /\ pc = "returned" /\ out.kind = "inconsistent"

(***************************************************************************)
(* Reference definitions of the loop.                                       *)
(***************************************************************************)
\* the positions of run inside its loop
LoopPcs == {"printBoard", "updateBoard", "persist", "wait"}

\* the grid a text of at least one line describes: its markers by row and
\* column
GridOf(text) ==
  LET lines == SplitLines(text)
  IN  [row \in 0..(Len(lines) - 1) |->
         [column \in 0..(Len(lines[1]) - 1) |-> lines[row + 1][column + 1]]]

\* the live cells of the grid are those of one 2x2 block
IsBlock(grid) ==
  \E r \in DOMAIN grid : \E c \in DOMAIN grid[r] :
    /\ r + 1 \in DOMAIN grid /\ c + 1 \in DOMAIN grid[r]
    /\ \A row \in DOMAIN grid : \A column \in DOMAIN grid[row] :
         grid[row][column] = ALIVE <=> (row \in {r, r + 1} /\ column \in {c, c + 1})

\* a board whose cells hold the markers of the grid
AsBoard(grid) ==
  [row \in DOMAIN grid |-> [column \in DOMAIN grid[row] |->
     [current_value |-> grid[row][column], new_value |-> grid[row][column]]]]

\* the grid after k steps of the Game of Life with hard edges
RECURSIVE RefIter(_, _)
RefIter(grid, k) == IF k = 0 THEN grid ELSE RefIter(RefStep(AsBoard(grid)), k - 1)

\* the interior rows of the frame of a grid of markers
Draw(grid) ==
  [row \in DOMAIN grid |->
     [column \in 1..Cardinality(DOMAIN grid[row]) |->
        IF grid[row][column - 1] = ALIVE THEN "alive" ELSE "dead"]]

(***************************************************************************)
(* C11: after a successful start-up the loop repeats render, step, wait in  *)
(* that order for ever.  The initial configuration is rendered before any   *)
(* step; the frame drawn under the label "Step: k" is the initial board     *)
(* advanced by k steps; run does not return, and every step succeeds: from  *)
(* the first render the loop goes on to the end of the step numbered        *)
(* MaxStep, where the model leaves it.                                      *)
(***************************************************************************)
C11_Frames ==
  (pc \in LoopPcs /\ WellFormedGrid(disk)) =>
    /\ ret = -1
    /\ pc = "printBoard" => screen.label = step - 1
    /\ pc # "printBoard" => screen.label = step
    /\ screen # NoScreen => screen.rows = Draw(RefIter(GridOf(disk), screen.label))
    /\ (pc = "printBoard" /\ step = 0) =>
         screen = NoScreen /\ old_board = NoBoard /\ Cur(board) = GridOf(disk)

C11_Order ==
  pc \in LoopPcs =>
    /\ pc' \in LoopPcs /\ ret' = -1
    /\ pc = "printBoard" => pc' = "updateBoard" /\ UNCHANGED <<board, step>>
    /\ pc = "updateBoard" => pc' = "persist" /\ UNCHANGED <<step, screen>>
    /\ pc = "persist" => pc' = "wait" /\ UNCHANGED <<step, screen>>
    /\ pc = "wait" => pc' = "printBoard" /\ step' = step + 1 /\ UNCHANGED <<board, screen>>

C11_Forever == (pc = "printBoard" /\ step = 0) ~> (pc = "wait" /\ step = MaxStep)

C11_Loop == []C11_Frames /\ [][C11_Order]_vars /\ C11_Forever

\* the vertical blinker has been rendered, stepped, and rendered again under
\* the label "Step: 1" as the horizontal one
C11_Witness ==
  /\ pc = "updateBoard" /\ step = 1
  /\ disk = Serialise(VerticalBlinker, 3, 3, 0)
  /\ screen = [label |-> 1, rows |-> Draw(HorizontalBlinker)]

(***************************************************************************)
(* C12: still life.  A board whose only live cells form a 2x2 block (the    *)
(* whole of a 2x2 board, or anywhere in a larger board, against an edge or  *)
(* in a corner) equals the initial board after any number of steps.         *)
(***************************************************************************)
C12_BlockStable ==
  (pc \in LoopPcs /\ WellFormedGrid(disk) /\ IsBlock(GridOf(disk))) =>
    Cur(board) = GridOf(disk)

\* a 3x3 board with the block in its lower right corner has been stepped twice
C12_Witness ==
  /\ pc = "wait" /\ step = 1
  /\ disk = Serialise(BoardOf(3, 3, {<<1, 1>>, <<1, 2>>, <<2, 1>>, <<2, 2>>}), 3, 3, 0)
  /\ Cur(old_board) = GridOf(disk)
  /\ Cur(board) = GridOf(disk)

(***************************************************************************)
(* C13: the configuration file handle is released on every exit path of the *)
(* parse phase: once checkConfigFile has failed or fillBoard has returned,  *)
(* and so at every point of the loop, the handle checkConfigFile opened has *)
(* been closed.                                                             *)
(***************************************************************************)
C13_HandleReleased ==
  pc \in LoopPcs \union {"returned"} => config_file # "open"

(***************************************************************************)
(* C14: grid well-formedness.  From the end of fillBoard on, at every point *)
(* of the loop, the height and the width do not change, the board holds a   *)
(* cell at every position (r, c) with 0 <= r < height and 0 <= c < width,   *)
(* and the current_value of every cell is '#' or '.'.                       *)
(***************************************************************************)
C14_Cells ==
  pc \in LoopPcs =>
    /\ DOMAIN board = 0..(board_height - 1)
    /\ \A row \in DOMAIN board :
         /\ DOMAIN board[row] = 0..(board_width - 1)
         /\ \A column \in DOMAIN board[row] :
              board[row][column].current_value \in {ALIVE, DEAD}

C14_Dimensions ==
  pc \in LoopPcs => UNCHANGED <<board_height, board_width>>

C14_GridWellFormed == []C14_Cells /\ [][C14_Dimensions]_vars

(***************************************************************************)
(* C15: the dimensions wrap.  For an input of lines of the two markers, L   *)
(* characters in each line with its terminator and T terminators, also when *)
(* L - 1 or T + 1 is more than 255, checkConfigFile returns OK with         *)
(* board_width = (L - 1) mod 256 and board_height = (T + 1) mod 256 and no  *)
(* error, and the board fillBoard builds has these wrapped dimensions.      *)
(***************************************************************************)
\* the positions of the line terminators of a text
Terminators(text) == {i \in 1..Len(text) : text[i] = NEWLINE}

\* the length of the first line of a text, its terminator included
LineLength(text) ==
  CHOOSE i \in Terminators(text) : \A j \in Terminators(text) : i <= j

\* a text of T >= 1 terminators whose lines all have the marker count of the
\* first, the last line without a terminator
Rectangular(text) ==
  /\ OnlyPermitted(text)
  /\ Terminators(text) # {}
  /\ \E L \in {LineLength(text)} :
       /\ \A i \in 1..Len(text) : (text[i] = NEWLINE) <=> (i % L = 0)
       /\ Len(text) % L = L - 1

C15_DimensionsWrap ==
  (disk_exists /\ Parsed /\ Rectangular(disk)) =>
    \E L \in {LineLength(disk)}, T \in {Cardinality(Terminators(disk))} :
        /\ Accepted
        /\ board_width = (L - 1) % 256
        /\ board_height = (T + 1) % 256
        /\ pc \in LoopPcs =>
             /\ DOMAIN board = 0..(((T + 1) % 256) - 1)
             /\ \A row \in DOMAIN board : DOMAIN board[row] = 0..(((L - 1) % 256) - 1)

\* 3 lines of 384 markers have been accepted as a board of 3 rows of 128
C15_Witness ==
  /\ pc = "printBoard" /\ step = 0
  /\ disk = LongFile(3, 384, DEAD)
  /\ board_height = 3 /\ board_width = 128
  /\ DOMAIN board[2] = 0..127

(***************************************************************************)
(* C16: updateBoard is total and normalising.  On a board of the given      *)
(* dimensions whose cells hold any bytes, the call can be made, reads no    *)
(* memory outside the board and returns; after it every cell holds '#' or   *)
(* '.' and its new_value equals its current_value; a cell that held neither *)
(* marker is dead, and every cell that held a marker has the value the rule *)
(* gives it on the board with those cells dead.                             *)
(***************************************************************************)
\* the board with every cell that holds no marker made dead
Normalised(b) ==
  [row \in DOMAIN b |-> [column \in DOMAIN b[row] |->
     IF b[row][column].current_value \in {ALIVE, DEAD}
     THEN b[row][column]
     ELSE [current_value |-> DEAD, new_value |-> DEAD]]]

C16_TotalNormalising ==
  /\ ~ub
  /\ pc = "updateBoard" => ENABLED UpdateScan
  /\ pc = "persist" => ENABLED UpdatePersist
  /\ pc = "wait" =>
       /\ DOMAIN board = DOMAIN old_board
       /\ \A row \in DOMAIN board :
            /\ DOMAIN board[row] = DOMAIN old_board[row]
            /\ \A column \in DOMAIN board[row] :
                 /\ board[row][column].current_value \in {ALIVE, DEAD}
                 /\ board[row][column].new_value = board[row][column].current_value
                 /\ board[row][column].current_value =
                      IF old_board[row][column].current_value \in {ALIVE, DEAD}
                      THEN RefCell(Normalised(old_board), row, column)
                      ELSE DEAD

\* a 2x2 board with a line terminator under two live cells has been stepped:
\* the dead cell next to the terminator has 2 live neighbours, not 3
C16_Witness ==
  /\ pc = "wait" /\ step = 0
  /\ Cur(old_board) = [row \in 0..1 |-> [column \in 0..1 |->
                         IF row = 0 THEN ALIVE ELSE IF column = 0 THEN NEWLINE ELSE DEAD]]
  /\ Cur(board) = [row \in 0..1 |-> [column \in 0..1 |-> DEAD]]

=============================================================================
